---- MODULE Spec2Model ----
(***************************************************************************)
(* Prefix varint codec (src/src/lib.rs).                                   *)
(*                                                                         *)
(* A 64-bit machine word is the tuple of its eight bytes, lowest first;     *)
(* u64 and i64 share this representation (i64 is two's complement).        *)
(* Bytes in memory, in a sink or in a cursor are naturals in 0..255.       *)
(***************************************************************************)
EXTENDS Integers, Sequences, FiniteSets, TLC

\* ------------------------------------------------------------------------
\* Bounds of the model
\* ------------------------------------------------------------------------
\* number of values written into one sink
MaxVals == 2
\* longest contiguous region a sink or a cursor exposes at one call
MaxRegion == 10
\* bytes that follow the first byte of a hand-made input stream
MaxRaw == 10

\* ------------------------------------------------------------------------
\* 64-bit words: the tuple of the eight bytes of the word, lowest first
\* (w[j+1] is the byte of significance j)
\* ------------------------------------------------------------------------
RECURSIVE Pow2(_)
Pow2(n) == IF n = 0 THEN 1 ELSE 2 * Pow2(n - 1)

\* uN::to_be followed by a store of n bytes: the low n bytes of w, most
\* significant first (the `as u16` / `as u32` casts drop the higher bytes)
ToBE(w, n) == [k \in 1..n |-> w[n - k + 1]]

\* a load of Len(bs) bytes followed by uN::from_be and u64::from
FromBE(bs) ==
    LET F(j) == IF j < Len(bs) THEN bs[Len(bs) - j] ELSE 0
    IN <<F(0), F(1), F(2), F(3), F(4), F(5), F(6), F(7)>>

\* bitwise |, &, ^ of two bytes, lowest bit first
RECURSIVE Or8(_, _)
Or8(a, b) ==
    IF a = 0 THEN b ELSE IF b = 0 THEN a
    ELSE (IF a % 2 = 1 \/ b % 2 = 1 THEN 1 ELSE 0) + 2 * Or8(a \div 2, b \div 2)
RECURSIVE And8(_, _)
And8(a, b) ==
    IF a = 0 \/ b = 0 THEN 0
    ELSE (IF a % 2 = 1 /\ b % 2 = 1 THEN 1 ELSE 0) + 2 * And8(a \div 2, b \div 2)
RECURSIVE Xor8(_, _)
Xor8(a, b) ==
    IF a = 0 THEN b ELSE IF b = 0 THEN a
    ELSE (IF a % 2 # b % 2 THEN 1 ELSE 0) + 2 * Xor8(a \div 2, b \div 2)

Or64(a, b) == LET F(j) == Or8(a[j+1], b[j+1])
    IN <<F(0), F(1), F(2), F(3), F(4), F(5), F(6), F(7)>>
And64(a, b) == LET F(j) == And8(a[j+1], b[j+1])
    IN <<F(0), F(1), F(2), F(3), F(4), F(5), F(6), F(7)>>
Xor64(a, b) == LET F(j) == Xor8(a[j+1], b[j+1])
    IN <<F(0), F(1), F(2), F(3), F(4), F(5), F(6), F(7)>>
Not64(a) == LET F(j) == 255 - a[j+1]
    IN <<F(0), F(1), F(2), F(3), F(4), F(5), F(6), F(7)>>

\* the byte of significance j of a word, 0 below and fill above the word
Ext(a, j, fill) == IF j < 0 THEN 0 ELSE IF j > 7 THEN fill ELSE a[j+1]

\* << by n < 64
Shl(a, n) ==
    LET q == n \div 8
        r == n % 8
        F(j) == ((Ext(a, j - q, 0) * Pow2(r)) % 256)
                + (Ext(a, j - q - 1, 0) \div Pow2(8 - r))
    IN <<F(0), F(1), F(2), F(3), F(4), F(5), F(6), F(7)>>

\* >> by n < 64, the vacated bits taken from a word of fill bytes
ShrFill(a, n, fill) ==
    LET q == n \div 8
        r == n % 8
        F(j) == (Ext(a, j + q, fill) \div Pow2(r))
                + ((Ext(a, j + q + 1, fill) * Pow2(8 - r)) % 256)
    IN <<F(0), F(1), F(2), F(3), F(4), F(5), F(6), F(7)>>

\* logical >> (u64) and arithmetic >> (i64)
Shr(a, n) == ShrFill(a, n, 0)
Sar(a, n) == ShrFill(a, n, IF a[8] >= 128 THEN 255 ELSE 0)

\* carry into the byte of significance j of a + b
RECURSIVE Carry(_, _, _)
Carry(a, b, j) ==
    IF j = 0 THEN 0
    ELSE (a[j] + b[j] + Carry(a, b, j - 1)) \div 256

\* wrapping addition and wrapping negation
Add64(a, b) ==
    LET F(j) == (a[j+1] + b[j+1] + Carry(a, b, j)) % 256
    IN <<F(0), F(1), F(2), F(3), F(4), F(5), F(6), F(7)>>
One64 == <<1, 0, 0, 0, 0, 0, 0, 0>>
Neg64(a) == Add64(Not64(a), One64)

\* unsigned a < b on the bytes of significance <= j
RECURSIVE LtFrom(_, _, _)
LtFrom(a, b, j) ==
    IF j < 0 THEN FALSE
    ELSE IF a[j+1] # b[j+1] THEN a[j+1] < b[j+1]
    ELSE LtFrom(a, b, j - 1)

\* unsigned a < b, a <= b
Lt64(a, b) == LtFrom(a, b, 7)
Leq64(a, b) == a = b \/ Lt64(a, b)

\* u8::leading_ones
RECURSIVE leading_ones(_)
leading_ones(b) == IF b >= 128 THEN 1 + leading_ones((2 * b) % 256) ELSE 0

\* ------------------------------------------------------------------------
\* Constants of the codec
\* ------------------------------------------------------------------------
MAX_LEN == 9

MAX_VALUE ==
    [n \in 0..9 |->
        CASE n = 0 -> FromBE(<<\h00>>)
          [] n = 1 -> FromBE(<<\h7f>>)
          [] n = 2 -> FromBE(<<\h3f, \hff>>)
          [] n = 3 -> FromBE(<<\h1f, \hff, \hff>>)
          [] n = 4 -> FromBE(<<\h0f, \hff, \hff, \hff>>)
          [] n = 5 -> FromBE(<<\h07, \hff, \hff, \hff, \hff>>)
          [] n = 6 -> FromBE(<<\h03, \hff, \hff, \hff, \hff, \hff>>)
          [] n = 7 -> FromBE(<<\h01, \hff, \hff, \hff, \hff, \hff, \hff>>)
          [] n = 8 -> FromBE(<<\h00, \hff, \hff, \hff, \hff, \hff, \hff, \hff>>)
          [] n = 9 -> FromBE(<<\hff, \hff, \hff, \hff, \hff, \hff, \hff, \hff>>)]

TAG_PREFIX ==
    [n \in 0..8 |->
        CASE n = 0 -> FromBE(<<\h00>>)
          [] n = 1 -> FromBE(<<\h00>>)
          [] n = 2 -> FromBE(<<\h80, \h00>>)
          [] n = 3 -> FromBE(<<\hc0, \h00, \h00>>)
          [] n = 4 -> FromBE(<<\he0, \h00, \h00, \h00>>)
          [] n = 5 -> FromBE(<<\hf0, \h00, \h00, \h00, \h00>>)
          [] n = 6 -> FromBE(<<\hf8, \h00, \h00, \h00, \h00, \h00>>)
          [] n = 7 -> FromBE(<<\hfc, \h00, \h00, \h00, \h00, \h00, \h00>>)
          [] n = 8 -> FromBE(<<\hfe, \h00, \h00, \h00, \h00, \h00, \h00, \h00>>)]

MAX_1BYTE_TAG == ToBE(MAX_VALUE[1], 1)[1]

\* ------------------------------------------------------------------------
\* Zigzag transform
\* ------------------------------------------------------------------------
\* zigzag_encode with a logical >> of the sign
zigzag_encode_logical(v) == Xor64(Shr(v, 63), Shl(v, 1))

zigzag_encode(v) == Xor64(Sar(v, 63), Shl(v, 1))

\* zigzag_decode without the negation of the low bit
zigzag_decode_noneg(v) == Xor64(Shr(v, 1), And64(v, One64))

zigzag_decode(v) == Xor64(Shr(v, 1), Neg64(And64(v, One64)))

\* ------------------------------------------------------------------------
\* Unchecked tier.  The encoder returns the length it reports and the bytes
\* it stored at p, p+1, ...; the decoder gets the memory at p, p+1, ... and
\* returns the value, the length and the number of bytes it loaded.
\* ------------------------------------------------------------------------
\* encode_prefix_uvarint_slow shifting the 5-byte form by 16 instead of 24
encode_prefix_uvarint_slow_shift(v) ==
    IF Leq64(v, MAX_VALUE[2]) THEN
        [len |-> 2, wrote |-> ToBE(Or64(v, TAG_PREFIX[2]), 2)]
    ELSE IF Leq64(v, MAX_VALUE[3]) THEN
        [len |-> 3, wrote |-> ToBE(Shl(Or64(v, TAG_PREFIX[3]), 8), 4)]
    ELSE IF Leq64(v, MAX_VALUE[4]) THEN
        [len |-> 4, wrote |-> ToBE(Or64(v, TAG_PREFIX[4]), 4)]
    ELSE IF Leq64(v, MAX_VALUE[5]) THEN
        [len |-> 5, wrote |-> ToBE(Shl(Or64(v, TAG_PREFIX[5]), 16), 8)]
    ELSE IF Leq64(v, MAX_VALUE[6]) THEN
        [len |-> 6, wrote |-> ToBE(Shl(Or64(v, TAG_PREFIX[6]), 16), 8)]
    ELSE IF Leq64(v, MAX_VALUE[7]) THEN
        [len |-> 7, wrote |-> ToBE(Shl(Or64(v, TAG_PREFIX[7]), 8), 8)]
    ELSE IF Leq64(v, MAX_VALUE[8]) THEN
        [len |-> 8, wrote |-> ToBE(Or64(v, TAG_PREFIX[8]), 8)]
    ELSE
        [len |-> 9, wrote |-> <<\hff>> \o ToBE(v, 8)]

\* encode_prefix_uvarint_slow storing the 9-byte payload at p+2
encode_prefix_uvarint_slow_off(v) ==
    IF Leq64(v, MAX_VALUE[2]) THEN
        [len |-> 2, wrote |-> ToBE(Or64(v, TAG_PREFIX[2]), 2)]
    ELSE IF Leq64(v, MAX_VALUE[3]) THEN
        [len |-> 3, wrote |-> ToBE(Shl(Or64(v, TAG_PREFIX[3]), 8), 4)]
    ELSE IF Leq64(v, MAX_VALUE[4]) THEN
        [len |-> 4, wrote |-> ToBE(Or64(v, TAG_PREFIX[4]), 4)]
    ELSE IF Leq64(v, MAX_VALUE[5]) THEN
        [len |-> 5, wrote |-> ToBE(Shl(Or64(v, TAG_PREFIX[5]), 24), 8)]
    ELSE IF Leq64(v, MAX_VALUE[6]) THEN
        [len |-> 6, wrote |-> ToBE(Shl(Or64(v, TAG_PREFIX[6]), 16), 8)]
    ELSE IF Leq64(v, MAX_VALUE[7]) THEN
        [len |-> 7, wrote |-> ToBE(Shl(Or64(v, TAG_PREFIX[7]), 8), 8)]
    ELSE IF Leq64(v, MAX_VALUE[8]) THEN
        [len |-> 8, wrote |-> ToBE(Or64(v, TAG_PREFIX[8]), 8)]
    ELSE
        [len |-> 9, wrote |-> <<\hff, \h00>> \o ToBE(v, 8)]

encode_prefix_uvarint_slow(v) ==
    IF Leq64(v, MAX_VALUE[2]) THEN
        [len |-> 2, wrote |-> ToBE(Or64(v, TAG_PREFIX[2]), 2)]
    ELSE IF Leq64(v, MAX_VALUE[3]) THEN
        [len |-> 3, wrote |-> ToBE(Shl(Or64(v, TAG_PREFIX[3]), 8), 4)]
    ELSE IF Leq64(v, MAX_VALUE[4]) THEN
        [len |-> 4, wrote |-> ToBE(Or64(v, TAG_PREFIX[4]), 4)]
    ELSE IF Leq64(v, MAX_VALUE[5]) THEN
        [len |-> 5, wrote |-> ToBE(Shl(Or64(v, TAG_PREFIX[5]), 24), 8)]
    ELSE IF Leq64(v, MAX_VALUE[6]) THEN
        [len |-> 6, wrote |-> ToBE(Shl(Or64(v, TAG_PREFIX[6]), 16), 8)]
    ELSE IF Leq64(v, MAX_VALUE[7]) THEN
        [len |-> 7, wrote |-> ToBE(Shl(Or64(v, TAG_PREFIX[7]), 8), 8)]
    ELSE IF Leq64(v, MAX_VALUE[8]) THEN
        [len |-> 8, wrote |-> ToBE(Or64(v, TAG_PREFIX[8]), 8)]
    ELSE
        [len |-> 9, wrote |-> <<\hff>> \o ToBE(v, 8)]

encode_prefix_uvarint(v) ==
    IF Leq64(v, MAX_VALUE[1]) THEN
        [len |-> 1, wrote |-> ToBE(v, 1)]
    ELSE
        encode_prefix_uvarint_slow(v)

\* the n bytes at offsets off .. off+n-1 of the region mem; a load past the
\* end of the region yields the byte g
Load(mem, off, n, g) ==
    [k \in 1..n |-> IF off + k <= Len(mem) THEN mem[off + k] ELSE g]

\* decode_prefix_uvarint_slow without the >> 8 of the 3-byte form
decode_prefix_uvarint_slow_noshift(tag, mem, g) ==
    LET k == leading_ones(tag) IN
    CASE k = 1 ->
            [value |-> And64(FromBE(Load(mem, 0, 2, g)), MAX_VALUE[2]),
             len |-> 2, loaded |-> 2]
      [] k = 2 ->
            [value |-> And64(FromBE(Load(mem, 0, 4, g)), MAX_VALUE[3]),
             len |-> 3, loaded |-> 4]
      [] k = 3 ->
            [value |-> And64(FromBE(Load(mem, 0, 4, g)), MAX_VALUE[4]),
             len |-> 4, loaded |-> 4]
      [] k = 4 ->
            [value |-> And64(Shr(FromBE(Load(mem, 0, 8, g)), 24), MAX_VALUE[5]),
             len |-> 5, loaded |-> 8]
      [] k = 5 ->
            [value |-> And64(Shr(FromBE(Load(mem, 0, 8, g)), 16), MAX_VALUE[6]),
             len |-> 6, loaded |-> 8]
      [] k = 6 ->
            [value |-> And64(Shr(FromBE(Load(mem, 0, 8, g)), 8), MAX_VALUE[7]),
             len |-> 7, loaded |-> 8]
      [] k = 7 ->
            [value |-> And64(FromBE(Load(mem, 0, 8, g)), MAX_VALUE[8]),
             len |-> 8, loaded |-> 8]
      [] OTHER ->
            [value |-> FromBE(Load(mem, 1, 8, g)), len |-> 9, loaded |-> 9]

decode_prefix_uvarint_slow(tag, mem, g) ==
    LET k == leading_ones(tag) IN
    CASE k = 1 ->
            [value |-> And64(FromBE(Load(mem, 0, 2, g)), MAX_VALUE[2]),
             len |-> 2, loaded |-> 2]
      [] k = 2 ->
            [value |-> And64(Shr(FromBE(Load(mem, 0, 4, g)), 8), MAX_VALUE[3]),
             len |-> 3, loaded |-> 4]
      [] k = 3 ->
            [value |-> And64(FromBE(Load(mem, 0, 4, g)), MAX_VALUE[4]),
             len |-> 4, loaded |-> 4]
      [] k = 4 ->
            [value |-> And64(Shr(FromBE(Load(mem, 0, 8, g)), 24), MAX_VALUE[5]),
             len |-> 5, loaded |-> 8]
      [] k = 5 ->
            [value |-> And64(Shr(FromBE(Load(mem, 0, 8, g)), 16), MAX_VALUE[6]),
             len |-> 6, loaded |-> 8]
      [] k = 6 ->
            [value |-> And64(Shr(FromBE(Load(mem, 0, 8, g)), 8), MAX_VALUE[7]),
             len |-> 7, loaded |-> 8]
      [] k = 7 ->
            [value |-> And64(FromBE(Load(mem, 0, 8, g)), MAX_VALUE[8]),
             len |-> 8, loaded |-> 8]
      [] OTHER ->
            [value |-> FromBE(Load(mem, 1, 8, g)), len |-> 9, loaded |-> 9]

decode_prefix_uvarint(mem, g) ==
    LET tag == Load(mem, 0, 1, g)[1] IN
    IF tag <= MAX_1BYTE_TAG THEN
        [value |-> FromBE(<<tag>>), len |-> 1, loaded |-> 1]
    ELSE
        decode_prefix_uvarint_slow(tag, mem, g)

\* ------------------------------------------------------------------------
\* Buffer integration layer.  Option<u64> is <<>> (None) or <<v>> (Some(v)).
\* ------------------------------------------------------------------------
None == <<>>
Some(v) == <<v>>

\* BufMut::put_u8 / put_u16 / put_u32 / put_u64 / put_uint(_, n): the bytes
\* appended to the sink, big-endian
put_uint(w, n) == ToBE(w, n)

\* Buf::get_u8 / get_u16 / get_u32 / get_u64 / get_uint(n) on a cursor whose
\* remaining bytes are rest: the value of the first n bytes, big-endian
get_uint(rest, n) == FromBE(SubSeq(rest, 1, n))

\* put_prefix_uvarint_slow without the tag of the 4-byte form
put_prefix_uvarint_slow_notag(v) ==
    IF Lt64(v, MAX_VALUE[2]) THEN put_uint(Or64(v, TAG_PREFIX[2]), 2)
    ELSE IF Lt64(v, MAX_VALUE[3]) THEN put_uint(Or64(v, TAG_PREFIX[3]), 3)
    ELSE IF Lt64(v, MAX_VALUE[4]) THEN put_uint(v, 4)
    ELSE IF Lt64(v, MAX_VALUE[5]) THEN put_uint(Or64(v, TAG_PREFIX[5]), 5)
    ELSE IF Lt64(v, MAX_VALUE[6]) THEN put_uint(Or64(v, TAG_PREFIX[6]), 6)
    ELSE IF Lt64(v, MAX_VALUE[7]) THEN put_uint(Or64(v, TAG_PREFIX[7]), 7)
    ELSE IF Lt64(v, MAX_VALUE[8]) THEN put_uint(Or64(v, TAG_PREFIX[8]), 8)
    ELSE <<\hff>> \o put_uint(v, 8)

\* the bytes appended to the sink
put_prefix_uvarint_slow(v) ==
    IF Lt64(v, MAX_VALUE[2]) THEN put_uint(Or64(v, TAG_PREFIX[2]), 2)
    ELSE IF Lt64(v, MAX_VALUE[3]) THEN put_uint(Or64(v, TAG_PREFIX[3]), 3)
    ELSE IF Lt64(v, MAX_VALUE[4]) THEN put_uint(Or64(v, TAG_PREFIX[4]), 4)
    ELSE IF Lt64(v, MAX_VALUE[5]) THEN put_uint(Or64(v, TAG_PREFIX[5]), 5)
    ELSE IF Lt64(v, MAX_VALUE[6]) THEN put_uint(Or64(v, TAG_PREFIX[6]), 6)
    ELSE IF Lt64(v, MAX_VALUE[7]) THEN put_uint(Or64(v, TAG_PREFIX[7]), 7)
    ELSE IF Lt64(v, MAX_VALUE[8]) THEN put_uint(Or64(v, TAG_PREFIX[8]), 8)
    ELSE <<\hff>> \o put_uint(v, 8)

\* v: the value; c: the length of the sink's chunk_mut().  bytes: what the
\* call appends to the sink; stored: how many bytes of the chunk the
\* unchecked encoder stored into (0 on the checked path)
put_prefix_uvarint(v, c) ==
    IF c >= MAX_LEN THEN
        LET e == encode_prefix_uvarint(v) IN
        [path |-> "fast", bytes |-> SubSeq(e.wrote, 1, e.len),
         stored |-> Len(e.wrote)]
    ELSE IF Leq64(v, MAX_VALUE[1]) THEN
        [path |-> "slow", bytes |-> put_uint(v, 1), stored |-> 0]
    ELSE
        [path |-> "slow", bytes |-> put_prefix_uvarint_slow(v), stored |-> 0]

put_prefix_varint(v, c) == put_prefix_uvarint(zigzag_encode(v), c)

\* get_prefix_uvarint_slow without b.advance(b.remaining()) on truncation
get_prefix_uvarint_slow_noadvance(rest, tag) ==
    LET remaining_bytes == leading_ones(tag)
        t == FromBE(<<tag>>)
    IN
    IF Len(rest) < remaining_bytes THEN
        [result |-> None, adv |-> 0]
    ELSE
        [result |-> Some(
            CASE remaining_bytes = 1 ->
                    And64(Or64(Shl(t, 8), get_uint(rest, 1)), MAX_VALUE[2])
              [] remaining_bytes = 2 ->
                    And64(Or64(Shl(t, 16), get_uint(rest, 2)), MAX_VALUE[3])
              [] remaining_bytes = 3 ->
                    And64(Or64(Shl(t, 24), get_uint(rest, 3)), MAX_VALUE[4])
              [] remaining_bytes = 4 ->
                    And64(Or64(Shl(t, 32), get_uint(rest, 4)), MAX_VALUE[5])
              [] remaining_bytes = 5 ->
                    And64(Or64(Shl(t, 40), get_uint(rest, 5)), MAX_VALUE[6])
              [] remaining_bytes = 6 ->
                    And64(Or64(Shl(t, 48), get_uint(rest, 6)), MAX_VALUE[7])
              [] remaining_bytes = 7 ->
                    And64(Or64(Shl(t, 56), get_uint(rest, 7)), MAX_VALUE[8])
              [] OTHER -> get_uint(rest, 8)),
         adv |-> IF remaining_bytes \in 1..7 THEN remaining_bytes ELSE 8]

\* rest: the cursor's remaining bytes after the tag was taken
\* adv: how many of them the call consumes
get_prefix_uvarint_slow(rest, tag) ==
    LET remaining_bytes == leading_ones(tag)
        t == FromBE(<<tag>>)
    IN
    IF Len(rest) < remaining_bytes THEN
        [result |-> None, adv |-> Len(rest)]
    ELSE
        [result |-> Some(
            CASE remaining_bytes = 1 ->
                    And64(Or64(Shl(t, 8), get_uint(rest, 1)), MAX_VALUE[2])
              [] remaining_bytes = 2 ->
                    And64(Or64(Shl(t, 16), get_uint(rest, 2)), MAX_VALUE[3])
              [] remaining_bytes = 3 ->
                    And64(Or64(Shl(t, 24), get_uint(rest, 3)), MAX_VALUE[4])
              [] remaining_bytes = 4 ->
                    And64(Or64(Shl(t, 32), get_uint(rest, 4)), MAX_VALUE[5])
              [] remaining_bytes = 5 ->
                    And64(Or64(Shl(t, 40), get_uint(rest, 5)), MAX_VALUE[6])
              [] remaining_bytes = 6 ->
                    And64(Or64(Shl(t, 48), get_uint(rest, 6)), MAX_VALUE[7])
              [] remaining_bytes = 7 ->
                    And64(Or64(Shl(t, 56), get_uint(rest, 7)), MAX_VALUE[8])
              [] OTHER -> get_uint(rest, 8)),
         adv |-> IF remaining_bytes \in 1..7 THEN remaining_bytes ELSE 8]

\* get_prefix_uvarint advancing by the bytes loaded instead of the length
get_prefix_uvarint_adv(rem, c, g) ==
    IF c >= MAX_LEN THEN
        LET d == decode_prefix_uvarint(SubSeq(rem, 1, c), g) IN
        [path |-> "fast", result |-> Some(d.value), adv |-> d.loaded,
         loaded |-> d.loaded]
    ELSE IF Len(rem) = 0 THEN
        [path |-> "empty", result |-> None, adv |-> 0, loaded |-> 0]
    ELSE
        LET tag == rem[1] IN
        IF tag <= MAX_1BYTE_TAG THEN
            [path |-> "slow", result |-> Some(FromBE(<<tag>>)), adv |-> 1,
             loaded |-> 0]
        ELSE
            LET s == get_prefix_uvarint_slow(Tail(rem), tag) IN
            [path |-> "slow", result |-> s.result, adv |-> 1 + s.adv,
             loaded |-> 0]

\* rem: the cursor's remaining bytes; c: the length of its chunk(); g: the
\* byte a load past the chunk would yield.  adv: how far the cursor moves;
\* loaded: how many bytes of the chunk the unchecked decoder loaded
get_prefix_uvarint(rem, c, g) ==
    IF c >= MAX_LEN THEN
        LET d == decode_prefix_uvarint(SubSeq(rem, 1, c), g) IN
        [path |-> "fast", result |-> Some(d.value), adv |-> d.len,
         loaded |-> d.loaded]
    ELSE IF Len(rem) = 0 THEN
        [path |-> "empty", result |-> None, adv |-> 0, loaded |-> 0]
    ELSE
        LET tag == rem[1] IN
        IF tag <= MAX_1BYTE_TAG THEN
            [path |-> "slow", result |-> Some(FromBE(<<tag>>)), adv |-> 1,
             loaded |-> 0]
        ELSE
            LET s == get_prefix_uvarint_slow(Tail(rem), tag) IN
            [path |-> "slow", result |-> s.result, adv |-> 1 + s.adv,
             loaded |-> 0]

get_prefix_varint(rem, c, g) ==
    LET r == get_prefix_uvarint(rem, c, g) IN
    [path |-> r.path,
     result |-> IF r.result = None THEN None
                ELSE Some(zigzag_decode(r.result[1])),
     adv |-> r.adv, loaded |-> r.loaded]

\* ------------------------------------------------------------------------
\* Inputs
\* ------------------------------------------------------------------------
\* every capacity maximum, its successor, and two interior values
UValues ==
    {MAX_VALUE[n] : n \in 0..9}
    \cup {Add64(MAX_VALUE[n], One64) : n \in 1..8}
    \cup {FromBE(<<\h03, \hff>>), FromBE(<<\h12, \h34, \h56, \h78, \h9a>>)}

\* i64 values as two's complement words: 0, 1, 2, 63, 64, 8191, i64::MAX
\* and the negations -1, -2, -3, -64, -65, -8192, i64::MIN
IPos ==
    {FromBE(<<0>>), FromBE(<<1>>), FromBE(<<2>>), FromBE(<<63>>),
     FromBE(<<64>>), FromBE(<<\h1f, \hff>>),
     FromBE(<<\h7f, \hff, \hff, \hff, \hff, \hff, \hff, \hff>>)}
IValues == IPos \cup {Not64(w) : w \in IPos}

\* the values a sink receives after its first one
UMore ==
    {MAX_VALUE[1], MAX_VALUE[2], Add64(MAX_VALUE[2], One64), MAX_VALUE[9]}
IMore ==
    {FromBE(<<64>>), Not64(FromBE(<<0>>)),
     Not64(FromBE(<<\h7f, \hff, \hff, \hff, \hff, \hff, \hff, \hff>>))}

\* lengths of the contiguous region a sink or cursor exposes when rem bytes
\* are behind it: the shortest, the two around MAX_LEN, the longest
Regions(rem) ==
    IF rem = 0 THEN {0}
    ELSE {c \in {1, MAX_LEN - 1, MAX_LEN, MaxRegion} : c <= rem}
         \cup {IF rem < MaxRegion THEN rem ELSE MaxRegion}

\* hand-made input streams: a first byte of every tag, then n filler bytes
FirstBytes ==
    {\h00, \h7f, \h80, \hbf, \hc0, \hdf, \he5, \hf0, \hf7, \hf8, \hfb,
     \hfc, \hfd, \hfe, \hff}
Filler(kind, n) ==
    [i \in 1..n |->
        CASE kind = 0 -> \h00
          [] kind = 1 -> \hff
          [] OTHER -> (i * 37 + 11) % 256]
RawStreams ==
    {<<>>} \cup {<<t>> \o Filler(kind, n) :
                    t \in FirstBytes, kind \in 0..2, n \in 0..MaxRaw}

\* ------------------------------------------------------------------------
\* State
\* ------------------------------------------------------------------------
VARIABLES
    phase,      \* "write": the sink is being filled; "read": a cursor is read
    signedMode, \* TRUE: the varint (i64) methods are used, else the uvarint
    origin,     \* "sink": the cursor is over the sink's bytes, "trunc":
                \* over the sink's bytes less the last, "raw": hand-made
    sink,       \* the bytes committed to the sink
    vals,       \* the values written, in order
    lens,       \* the number of bytes each write appended
    wr,         \* the last write
    rbuf,       \* the bytes the cursor was created over
    rpos,       \* the number of bytes the cursor has advanced over
    out,        \* the results of the reads, in order
    advs,       \* the number of bytes each read advanced
    rd          \* the last read

vars == <<phase, signedMode, origin, sink, vals, lens, wr, rbuf, rpos, out,
          advs, rd>>

NoWrite == [path |-> "none"]
NoRead == [path |-> "none"]

Init ==
    /\ signedMode \in BOOLEAN
    /\ sink = <<>>
    /\ vals = <<>>
    /\ lens = <<>>
    /\ wr = NoWrite
    /\ rpos = 0
    /\ out = <<>>
    /\ advs = <<>>
    /\ rd = NoRead
    /\ \/ phase = "write" /\ origin = "sink" /\ rbuf = <<>>
       \/ phase = "read" /\ origin = "raw" /\ rbuf \in RawStreams

\* one call of put_prefix_uvarint / put_prefix_varint on the sink: v is the
\* argument, u the u64 that is encoded, c the length of chunk_mut(), p the
\* outcome of the call
Put(v, u, c, p) ==
    /\ phase = "write"
    /\ Len(vals) < MaxVals
    /\ sink' = sink \o p.bytes
    /\ vals' = Append(vals, v)
    /\ lens' = Append(lens, Len(p.bytes))
    /\ wr' = [path |-> p.path, region |-> c, stored |-> p.stored,
              v |-> v, u |-> u, bytes |-> p.bytes]
    /\ UNCHANGED <<phase, signedMode, origin, rbuf, rpos, out, advs, rd>>

PutU ==
    /\ ~signedMode
    /\ \E v \in (IF vals = <<>> THEN UValues ELSE UMore),
          c \in Regions(MaxRegion) :
          Put(v, v, c, put_prefix_uvarint(v, c))

PutI ==
    /\ signedMode
    /\ \E v \in (IF vals = <<>> THEN IValues ELSE IMore),
          c \in Regions(MaxRegion) :
          Put(v, zigzag_encode(v), c, put_prefix_varint(v, c))

\* a cursor is created over the sink's bytes, or over all but the last
StartRead ==
    /\ phase = "write"
    /\ \E n \in {0, 1} :
          /\ n <= Len(sink)
          /\ rbuf' = SubSeq(sink, 1, Len(sink) - n)
          /\ origin' = IF n = 0 THEN "sink" ELSE "trunc"
    /\ phase' = "read"
    /\ wr' = NoWrite
    /\ UNCHANGED <<signedMode, sink, vals, lens, rpos, out, advs, rd>>

Remaining == SubSeq(rbuf, rpos + 1, Len(rbuf))

\* one call of get_prefix_uvarint / get_prefix_varint on the cursor; the
\* caller stops at the first None
Get(c, r) ==
    /\ phase = "read"
    /\ IF out = <<>> THEN TRUE ELSE out[Len(out)] # None
    /\ rpos' = rpos + r.adv
    /\ out' = Append(out, r.result)
    /\ advs' = Append(advs, r.adv)
    /\ rd' = [path |-> r.path, chunk |-> c, loaded |-> r.loaded,
              before |-> rpos, result |-> r.result]
    /\ UNCHANGED <<phase, signedMode, origin, sink, vals, lens, wr, rbuf>>

GetU ==
    /\ ~signedMode
    /\ \E c \in Regions(Len(rbuf) - rpos), g \in {\h00, \hff} :
          Get(c, get_prefix_uvarint(Remaining, c, g))

GetI ==
    /\ signedMode
    /\ \E c \in Regions(Len(rbuf) - rpos), g \in {\h00, \hff} :
          Get(c, get_prefix_varint(Remaining, c, g))

Next == PutU \/ PutI \/ StartRead \/ GetU \/ GetI

Spec == Init /\ [][Next]_vars

\* ------------------------------------------------------------------------
\* Properties
\* ------------------------------------------------------------------------
\* the bytes the cursor had left when the last read began
RemBefore == SubSeq(rbuf, rd.before + 1, Len(rbuf))

\* the smallest n in 1..9 with u <= MAX_VALUE[n]
MinLen(u) ==
    CHOOSE n \in 1..9 :
        /\ Leq64(u, MAX_VALUE[n])
        /\ \A m \in 1..(n - 1) : ~Leq64(u, MAX_VALUE[m])

I64_MIN == FromBE(<<\h80, \h00, \h00, \h00, \h00, \h00, \h00, \h00>>)

\* naturals below 2^72 as nine bytes, lowest first, and their sum
Wide(w) == w \o <<0>>
AddWide(a, b) == [j \in 1..9 |-> (a[j] + b[j] + Carry(a, b, j - 1)) % 256]
TwoTo65 == <<0, 0, 0, 0, 0, 0, 0, 0, 2>>

\* C1: every u64 written by put_prefix_uvarint, on either write path, is
\* returned as Some(v) by the get_prefix_uvarint that reads its bytes, on
\* either read path, and that read advances the cursor by exactly the
\* number of bytes the write appended.
C1_RoundTrip ==
    (~signedMode /\ origin = "sink") =>
        \A i \in 1..Len(out) :
            i <= Len(vals) => out[i] = Some(vals[i]) /\ advs[i] = lens[i]

C1_Witness ==
    /\ ~signedMode /\ origin = "sink"
    /\ Len(vals) >= 2 /\ Len(out) = 1
    /\ vals[1] = MAX_VALUE[2] /\ lens[1] = 3
    /\ rd.path = "fast" /\ out[1] = Some(MAX_VALUE[2]) /\ advs[1] = 3

\* C2: every write appends exactly n bytes, n the smallest length in 1..9
\* with v <= MAX_VALUE[n], whatever the length of the sink's writable
\* region.
C2_Minimality ==
    wr.path # "none" => Len(wr.bytes) = MinLen(wr.u)

\* C3: a read of a cursor that is empty, or whose first byte has k >= 1
\* leading one-bits with fewer than k bytes behind it, returns None and
\* leaves the cursor with no bytes remaining; in particular the read that
\* meets an encoding whose last byte was removed returns None.
C3_Truncated ==
    /\ rd.path # "none" =>
          ((RemBefore = <<>>
            \/ Len(RemBefore) - 1 < leading_ones(RemBefore[1]))
           => rd.result = None /\ rpos = Len(rbuf))
    /\ (origin = "trunc" /\ Len(out) = Len(vals)) => out[Len(out)] = None

C3_Witness ==
    /\ origin = "trunc"
    /\ rd.path = "slow" /\ rd.result = None
    /\ Len(RemBefore) >= 2 /\ rpos = Len(rbuf)

\* C4 (state part): the reads of a cursor over a sink's bytes return the
\* values written, in order; after the last of them the cursor is empty
\* and the next read returns None.
C4_InOrder ==
    (~signedMode /\ origin = "sink" /\ phase = "read") =>
        /\ Len(out) <= Len(vals) + 1
        /\ \A i \in 1..Len(out) : i <= Len(vals) => out[i] = Some(vals[i])
        /\ Len(out) >= Len(vals) => rpos = Len(rbuf)
        /\ Len(out) = Len(vals) + 1 => out[Len(out)] = None

\* C4 (step part): a write only appends to the sink.
C4_AppendOnly ==
    Len(sink') >= Len(sink) /\ SubSeq(sink', 1, Len(sink)) = sink

\* C4: sequencing of writes and reads on one sink.
C4_Sequencing == []C4_InOrder /\ [][C4_AppendOnly]_vars

C4_Witness ==
    /\ ~signedMode /\ origin = "sink"
    /\ Len(vals) >= 2 /\ Len(out) = Len(vals) + 1
    /\ out[1] = Some(vals[1]) /\ out[Len(out)] = None /\ rpos = Len(rbuf)

\* C5: zigzag_decode inverts zigzag_encode on every i64, i64::MIN and
\* i64::MAX included, and get_prefix_varint returns Some(v) on the bytes
\* put_prefix_varint(v) appended.
C5_SignedRoundTrip ==
    /\ (signedMode /\ wr.path # "none") => zigzag_decode(wr.u) = wr.v
    /\ (signedMode /\ origin = "sink") =>
          \A i \in 1..Len(out) : i <= Len(vals) => out[i] = Some(vals[i])

C5_Witness ==
    /\ signedMode /\ origin = "sink"
    /\ Len(vals) >= 1 /\ Len(out) >= 1
    /\ vals[1] = I64_MIN /\ out[1] = Some(I64_MIN)

\* C6: zigzag_encode maps 0, -1, 1, -2, 2 to 0, 1, 2, 3, 4; for every i64 v
\* it is 2*v when v >= 0 and -2*v - 1 when v < 0.  With U the two's
\* complement word of a negative v (v = U - 2^64), z = -2*v - 1 is
\* z + 1 + 2*U = 2^65.
C6_ZigzagOrder ==
    (signedMode /\ wr.path # "none") =>
        /\ wr.v = FromBE(<<0>>) => wr.u = FromBE(<<0>>)
        /\ wr.v = Not64(FromBE(<<0>>)) => wr.u = FromBE(<<1>>)
        /\ wr.v = FromBE(<<1>>) => wr.u = FromBE(<<2>>)
        /\ wr.v = Not64(FromBE(<<1>>)) => wr.u = FromBE(<<3>>)
        /\ wr.v = FromBE(<<2>>) => wr.u = FromBE(<<4>>)
        /\ wr.v = I64_MIN => wr.u = MAX_VALUE[9]
        /\ IF wr.v[8] < 128
           THEN Wide(wr.u) = AddWide(Wide(wr.v), Wide(wr.v))
           ELSE AddWide(AddWide(Wide(wr.u), Wide(One64)),
                        AddWide(Wide(wr.v), Wide(wr.v))) = TwoTo65

C6_Witness ==
    /\ signedMode /\ wr.path # "none"
    /\ wr.v = Not64(FromBE(<<1>>)) /\ wr.u = FromBE(<<3>>)

\* C7: a write that appends L bytes appends a first byte with exactly L-1
\* leading one-bits (0xFF when L = 9, the bit below the tag 0 otherwise),
\* and the bits below the tag followed by the other L-1 bytes are v,
\* big-endian; on both write paths.
C7_WireFormat ==
    wr.path # "none" =>
        LET b == wr.bytes
            L == Len(wr.bytes)
        IN /\ L \in 1..9
           /\ leading_ones(b[1]) = L - 1
           /\ L = 9 => b[1] = 255 /\ FromBE(Tail(b)) = wr.u
           /\ L <= 8 =>
                /\ (b[1] \div Pow2(8 - L)) % 2 = 0
                /\ FromBE(<<b[1] % Pow2(8 - L)>> \o Tail(b)) = wr.u

C7_Witness ==
    /\ wr.path = "slow" /\ wr.u = MAX_VALUE[2]
    /\ wr.bytes = <<\hc0, \h3f, \hff>>

\* C8: a read either returns None or returns Some after advancing by exactly
\* 1 + k bytes, k the leading one-bits of the first byte; result and advance
\* are the same for every length of the cursor's current chunk, so on the
\* fast and on the slow path.
C8_NoPartialRead ==
    rd.path # "none" =>
        /\ rd.result # None =>
              rpos = rd.before + 1 + leading_ones(RemBefore[1])
        /\ \A c \in Regions(Len(RemBefore)) :
              LET r == IF signedMode THEN get_prefix_varint(RemBefore, c, 0)
                       ELSE get_prefix_uvarint(RemBefore, c, 0)
              IN r.result = rd.result /\ r.adv = rpos - rd.before

C8_Witness ==
    /\ origin = "raw" /\ rd.path = "fast" /\ rd.result # None
    /\ leading_ones(RemBefore[1]) = 2
    /\ rpos = rd.before + 3 /\ rpos < Len(rbuf)

\* C9: the unchecked encoder stores only into offsets 0..8 and the
\* unchecked decoder loads only from offsets 0..8; the fast paths run only
\* on a region of at least MAX_LEN bytes and stay inside it.
C9_BoundedAccess ==
    /\ wr.path = "fast" =>
          wr.region >= MAX_LEN /\ wr.stored <= MAX_LEN
          /\ wr.stored <= wr.region /\ Len(wr.bytes) <= wr.stored
    /\ rd.path = "fast" =>
          rd.chunk >= MAX_LEN /\ rd.loaded <= MAX_LEN
          /\ rd.loaded <= rd.chunk

C9_Witness ==
    /\ wr.path = "fast" /\ wr.region = MAX_LEN
    /\ Len(wr.bytes) = 5 /\ wr.stored = 8

\* C10: the bytes a write appends through the slow path are the bytes it
\* commits through the fast path.
C10_PathEquivalence ==
    wr.path # "none" =>
        /\ wr.bytes = put_prefix_uvarint(wr.u, MAX_LEN).bytes
        /\ wr.bytes = put_prefix_uvarint(wr.u, MAX_LEN - 1).bytes

====
